---- MODULE Spec2Model ----
(***************************************************************************)
(* Model of the SOS front end: the App component (capture session, admin   *)
(* gate) and the Dashboard component (incident poller).                    *)
(*                                                                         *)
(* Execution is a single-threaded event loop: every action below is one    *)
(* event handler or callback run to completion, including the re-render    *)
(* (mount / unmount of Dashboard) that the state change causes.            *)
(* Status strings are the source's literals without their emoji prefix.    *)
(***************************************************************************)
EXTENDS Integers, Sequences, FiniteSets, TLC

\* ---------------------------------------------------------------- bounds
MaxSessions == 2     \* SOS triggers per behaviour
MaxChunks   == 1     \* dataavailable callbacks per recorder
MaxMounts   == 2     \* Dashboard mounts per behaviour
MaxFetches  == 3     \* incident fetches issued per behaviour
MaxId       == 2     \* incident ids are 1..MaxId
MaxLen      == 2     \* incidents per backend response
MaxRows     == 2     \* table rows per rendering of the severity column
FrameSessions == 1   \* SOS triggers per behaviour of SpecFrame
FrameFetches  == 2   \* incident fetches per behaviour of SpecFrame

\* ------------------------------------------------------------- constants
RecordMs == 3000
PollMs   == 5000

Secret      == "police123"
Passwords   == {"", "police123", "letmein"}
Texts       == {"", "help"}
DefaultText == "React App SOS Triggered"
Positions   == {<<12, 77>>}
Severities  == {"High", "Low"}
None        == "none"

\* An optional value: absent, or the value held.
Nothing == <<>>
Some(x) == <<x>>

StReady     == "Ready"
StLocating  == "Getting Location..."
StLocDenied == "Error: Location Access Denied"
StRecording == "Recording Audio (3s)..."
StMicDenied == "Error: Mic Access Denied"
StSending   == "Sending Alert to AI..."
StHelp      == "Help is on the way!"
StServerErr == "Server Error"

AlertNoGeo   == "Geolocation is not supported by your browser"
AlertWrongPw == "Wrong Password!"

\* ------------------------------------------------------------------ state
VARIABLES
    view,            \* App: "user" | "admin"
    isAuthenticated, \* App
    passwordInput,   \* App
    status,          \* App
    isRecording,     \* App
    result,          \* App: Nothing (null) or Some(response.data) of a POST
    textMessage,     \* App
    lastAlert,       \* text of the last alert() shown, None if none
    geoSupported,    \* whether navigator.geolocation exists in this runtime
    sess,            \* capture sessions in trigger order (closures of handleSOS)
    inst,            \* number of Dashboard instances mounted so far
    incidents,       \* Dashboard: hook state of the latest instance
    intervals,       \* live setInterval timers: records [inst, period]
    pending,         \* incident fetches in flight: records [id, inst, after],
                     \* after = the failures seen when the fetch was issued
    nFetch,          \* incident fetches issued so far
    issued,          \* per Dashboard instance: fetches issued by it
    lateSets,        \* setIncidents calls made by a fetch of an unmounted instance
    nFail,           \* incident fetches that failed so far
    lastData,        \* body of the last successful response, as received
    shown,           \* id of the fetch whose response incidents holds, 0 if none
    badges           \* Dashboard: the severity column as rendered, one record
                     \* [severity, cls] per table row

appVars  == <<view, isAuthenticated, passwordInput, lastAlert>>
capVars  == <<status, isRecording, result, textMessage, geoSupported, sess>>
dashVars == <<inst, incidents, intervals, pending, nFetch, issued, lateSets, nFail,
              lastData, shown, badges>>
vars     == <<appVars, capVars, dashVars>>

\* --------------------------------------------------------------- sessions
\* One record per trigger.  pc is the position of that session's chain of
\* callbacks; log, stops and posts record what the session has done.
Steps == <<"locReq", "locOk", "micReq", "recStart", "recStop", "post">>

NewSession(pc0, log0, text) ==
    [pc |-> pc0, pos |-> Nothing, chunks |-> 0, audio |-> Nothing, timer |-> 0,
     text |-> text, form |-> Nothing, stops |-> 0, posts |-> 0, log |-> log0]

Sids == 1..Len(sess)

Upd(s, r) == [sess EXCEPT ![s] = r]

\* The SOS button is rendered on the user screen only, with disabled={isRecording}.
TriggerEnabled == view = "user" /\ ~isRecording

\* The textarea is rendered on the user screen only, with disabled={isRecording}.
TextEditable == view = "user" /\ ~isRecording

\* Dashboard is rendered exactly when view === "admin" && isAuthenticated.
Mounted == view = "admin" /\ isAuthenticated

Init ==
    /\ view = "user"
    /\ isAuthenticated = FALSE
    /\ passwordInput = ""
    /\ status = StReady
    /\ isRecording = FALSE
    /\ result = Nothing
    /\ textMessage = ""
    /\ lastAlert = None
    /\ geoSupported \in BOOLEAN
    /\ sess = <<>>
    /\ inst = 0
    /\ incidents = <<>>
    /\ intervals = {}
    /\ pending = {}
    /\ nFetch = 0
    /\ issued = [i \in 1..MaxMounts |-> 0]
    /\ lateSets = 0
    /\ nFail = 0
    /\ lastData = <<>>
    /\ shown = 0
    /\ badges = <<>>

\* ------------------------------------------------- App: capture session
\* Mutant of HandleSOS: startRecording is called without waiting for the
\* position.
HandleSOSEager ==
    /\ TriggerEnabled
    /\ Len(sess) < MaxSessions
    /\ status' = StRecording
    /\ isRecording' = TRUE
    /\ sess' = Append(sess, NewSession("awaitMic", <<"locReq", "micReq">>, textMessage))
    /\ UNCHANGED <<appVars, result, textMessage, geoSupported, dashVars>>

\* handleSOS, reached only through the SOS button's onClick.  The handlers
\* of one click close over the textMessage of the render they belong to.
HandleSOS ==
    /\ TriggerEnabled
    /\ Len(sess) < MaxSessions
    /\ status' = StLocating
    /\ IF ~geoSupported
         THEN /\ lastAlert' = AlertNoGeo
              /\ isRecording' = FALSE
              /\ sess' = Append(sess, NewSession("unsupported", <<>>, textMessage))
         ELSE /\ isRecording' = TRUE
              /\ sess' = Append(sess, NewSession("awaitLoc", <<"locReq">>, textMessage))
              /\ UNCHANGED lastAlert
    /\ UNCHANGED <<view, isAuthenticated, passwordInput, result, textMessage,
                   geoSupported, dashVars>>

\* getCurrentPosition success callback, which runs startRecording up to its
\* await of getUserMedia.
LocationSuccess(s, p) ==
    /\ sess[s].pc = "awaitLoc"
    /\ status' = StRecording
    /\ sess' = Upd(s, [sess[s] EXCEPT !.pc = "awaitMic", !.pos = Some(p),
                                      !.log = @ \o <<"locOk", "micReq">>])
    /\ UNCHANGED <<appVars, isRecording, result, textMessage, geoSupported, dashVars>>

\* Mutant of LocationError: setIsRecording(false) is left out.
LocationErrorStaysBusy(s) ==
    /\ sess[s].pc = "awaitLoc"
    /\ status' = StLocDenied
    /\ sess' = Upd(s, [sess[s] EXCEPT !.pc = "locDenied"])
    /\ UNCHANGED <<appVars, isRecording, result, textMessage, geoSupported, dashVars>>

\* getCurrentPosition error callback.
LocationError(s) ==
    /\ sess[s].pc = "awaitLoc"
    /\ status' = StLocDenied
    /\ isRecording' = FALSE
    /\ sess' = Upd(s, [sess[s] EXCEPT !.pc = "locDenied"])
    /\ UNCHANGED <<appVars, result, textMessage, geoSupported, dashVars>>

\* startRecording resumed with a stream: the recorder is created and started
\* and the stop timer is armed.
MicGranted(s) ==
    /\ sess[s].pc = "awaitMic"
    /\ sess' = Upd(s, [sess[s] EXCEPT !.pc = "recording", !.timer = RecordMs,
                                      !.log = Append(@, "recStart")])
    /\ UNCHANGED <<appVars, status, isRecording, result, textMessage, geoSupported,
                   dashVars>>

\* startRecording's catch: getUserMedia rejected, or creating / starting the
\* recorder threw.
MicFailed(s) ==
    /\ sess[s].pc = "awaitMic"
    /\ status' = StMicDenied
    /\ isRecording' = FALSE
    /\ sess' = Upd(s, [sess[s] EXCEPT !.pc = "micDenied"])
    /\ UNCHANGED <<appVars, result, textMessage, geoSupported, dashVars>>

\* Mutant of DataAvailable: the recorder is stopped as soon as data arrives.
DataAvailableStops(s) ==
    /\ sess[s].pc \in {"recording", "stopping"}
    /\ sess[s].chunks < MaxChunks
    /\ sess' = Upd(s, [sess[s] EXCEPT !.chunks = @ + 1, !.pc = "stopping",
                                      !.stops = @ + 1])
    /\ UNCHANGED <<appVars, status, isRecording, result, textMessage, geoSupported,
                   dashVars>>

\* mediaRecorder.ondataavailable: a chunk is pushed.  The recorder delivers
\* data while recording and once more between stop() and its stop event.
DataAvailable(s) ==
    /\ sess[s].pc \in {"recording", "stopping"}
    /\ sess[s].chunks < MaxChunks
    /\ sess' = Upd(s, [sess[s] EXCEPT !.chunks = @ + 1])
    /\ UNCHANGED <<appVars, status, isRecording, result, textMessage, geoSupported,
                   dashVars>>

\* Mutant of TimerFire: the timer callback sends the alert itself, before
\* the recorder's stop event has delivered the audio.
TimerFireAndSend(s) ==
    /\ sess[s].timer = RecordMs
    /\ isRecording' = FALSE
    /\ sess' = Upd(s, [sess[s] EXCEPT !.pc = "stopping", !.timer = 0,
                                      !.stops = @ + 1, !.posts = @ + 1,
                                      !.log = Append(@, "recStop")])
    /\ UNCHANGED <<appVars, status, result, textMessage, geoSupported, dashVars>>

\* The setTimeout callback: mediaRecorder.stop(); setIsRecording(false).
TimerFire(s) ==
    /\ sess[s].timer = RecordMs
    /\ isRecording' = FALSE
    /\ sess' = Upd(s, [sess[s] EXCEPT !.pc = "stopping", !.timer = 0,
                                      !.stops = @ + 1,
                                      !.log = Append(@, "recStop")])
    /\ UNCHANGED <<appVars, status, result, textMessage, geoSupported, dashVars>>

\* The multipart form sendAlert builds.
FormData(r, blob) ==
    [audio_file    |-> blob,
     location_data |-> r.pos[1],
     text_message  |-> IF r.text = "" THEN DefaultText ELSE r.text]

\* mediaRecorder.onstop: the blob is built from the chunks and sendAlert runs
\* up to its await of the POST.
OnStop(s) ==
    /\ sess[s].pc = "stopping"
    /\ status' = StSending
    /\ LET blob == [chunks |-> sess[s].chunks]
       IN  sess' = Upd(s, [sess[s] EXCEPT !.pc = "uploading", !.audio = Some(blob),
                                          !.form = Some(FormData(sess[s], blob)),
                                          !.posts = @ + 1,
                                          !.log = Append(@, "post")])
    /\ UNCHANGED <<appVars, isRecording, result, textMessage, geoSupported, dashVars>>

\* sendAlert resumed with a response.
PostSuccess(s, sev) ==
    /\ sess[s].pc = "uploading"
    /\ result' = Some([severity |-> sev, session |-> s])
    /\ status' = StHelp
    /\ sess' = Upd(s, [sess[s] EXCEPT !.pc = "submitted"])
    /\ UNCHANGED <<appVars, isRecording, textMessage, geoSupported, dashVars>>

\* sendAlert's catch.
PostFailure(s) ==
    /\ sess[s].pc = "uploading"
    /\ status' = StServerErr
    /\ sess' = Upd(s, [sess[s] EXCEPT !.pc = "submitFailed"])
    /\ UNCHANGED <<appVars, isRecording, result, textMessage, geoSupported, dashVars>>

\* The textarea's onChange.
EditText(t) ==
    /\ TextEditable
    /\ t # textMessage
    /\ textMessage' = t
    /\ UNCHANGED <<appVars, status, isRecording, result, geoSupported, sess, dashVars>>

\* ----------------------------------------------------- Dashboard: poller
\* Mutant of Cmp: the operands are swapped.
CmpAscending(a, b) == a.id - b.id

\* The comparator handed to Array.prototype.sort.
Cmp(a, b) == b.id - a.id

\* Array.prototype.sort with Cmp: a stable sort, done here by insertion.
RECURSIVE InsertSorted(_, _)
InsertSorted(x, out) ==
    IF out = <<>> THEN <<x>>
    ELSE IF Cmp(Head(out), x) <= 0 THEN <<Head(out)>> \o InsertSorted(x, Tail(out))
    ELSE <<x>> \o out

RECURSIVE SortDesc(_)
SortDesc(data) ==
    IF data = <<>> THEN <<>>
    ELSE InsertSorted(data[Len(data)], SortDesc(SubSeq(data, 1, Len(data) - 1)))

\* The bodies the backend may answer with: incidents with distinct ids, in
\* any order.
Ids == 1..MaxId

Responses ==
    { d \in UNION { [1..n -> [id : Ids]] : n \in 0..MaxLen } :
        \A i, j \in DOMAIN d : i # j => d[i].id # d[j].id }

\* fetchData up to its await of axios.get, called by Dashboard instance i.
IssueFetch(i) ==
    /\ nFetch' = nFetch + 1
    /\ pending' = pending \cup {[id |-> nFetch + 1, inst |-> i, after |-> nFail]}
    /\ issued' = [issued EXCEPT ![i] = @ + 1]

\* Mutant of ClearInterval: the cleanup clears nothing.
ClearNothing(i) == intervals

\* clearInterval(interval) in the effect cleanup of instance i.
ClearInterval(i) == { t \in intervals : t.inst # i }

\* The effect of mounting Dashboard: useState([]), fetchData(), setInterval.
MountDashboard ==
    /\ inst' = inst + 1
    /\ incidents' = <<>>
    /\ IssueFetch(inst + 1)
    /\ intervals' = intervals \cup {[inst |-> inst + 1, period |-> PollMs]}
    /\ shown' = 0
    /\ UNCHANGED <<lateSets, nFail, lastData, badges>>

\* Unmounting Dashboard: the instance's state is dropped and the effect
\* cleanup runs.
UnmountDashboard ==
    /\ incidents' = <<>>
    /\ intervals' = ClearInterval(inst)
    /\ shown' = 0
    /\ UNCHANGED <<inst, pending, nFetch, issued, lateSets, nFail, lastData, badges>>

\* A setInterval timer fires and calls fetchData.
Tick(t) ==
    /\ t \in intervals
    /\ nFetch < MaxFetches
    /\ IssueFetch(t.inst)
    /\ UNCHANGED <<appVars, capVars, inst, incidents, intervals, lateSets, nFail,
                   lastData, shown, badges>>

\* Mutant of FetchSuccess: the response is merged into the previous set.
FetchSuccessMerges(f, data) ==
    /\ f \in pending
    /\ pending' = pending \ {f}
    /\ lastData' = data
    /\ LET sortedData == SortDesc(data)
       IN  IF Mounted /\ f.inst = inst
             THEN incidents' = incidents \o sortedData /\ shown' = f.id
                  /\ UNCHANGED lateSets
             ELSE lateSets' = lateSets + 1 /\ UNCHANGED <<incidents, shown>>
    /\ UNCHANGED <<appVars, capVars, inst, intervals, nFetch, issued, nFail, badges>>

\* fetchData resumed with a response: sort, then setIncidents.  setIncidents
\* belongs to the instance that issued the fetch; React drops an update of
\* an instance that is no longer mounted.
FetchSuccess(f, data) ==
    /\ f \in pending
    /\ pending' = pending \ {f}
    /\ lastData' = data
    /\ LET sortedData == SortDesc(data)
       IN  IF Mounted /\ f.inst = inst
             THEN incidents' = sortedData /\ shown' = f.id /\ UNCHANGED lateSets
             ELSE lateSets' = lateSets + 1 /\ UNCHANGED <<incidents, shown>>
    /\ UNCHANGED <<appVars, capVars, inst, intervals, nFetch, issued, nFail, badges>>

\* Mutant of FetchFailure: the catch empties the incident set.
FetchFailureClears(f) ==
    /\ f \in pending
    /\ pending' = pending \ {f}
    /\ nFail' = nFail + 1
    /\ incidents' = <<>>
    /\ UNCHANGED <<appVars, capVars, inst, intervals, nFetch, issued, lateSets,
                   lastData, shown, badges>>

\* fetchData's catch: console.error only.
FetchFailure(f) ==
    /\ f \in pending
    /\ pending' = pending \ {f}
    /\ nFail' = nFail + 1
    /\ UNCHANGED <<appVars, capVars, inst, incidents, intervals, nFetch, issued,
                   lateSets, lastData, shown, badges>>

\* ------------------------------------------------- Dashboard: rendering
ClsHigh   == "severity-pill severity-high"
ClsMedium == "severity-pill severity-medium"
ClsLow    == "severity-pill severity-low"

\* Severity strings a response may carry.
SeverityInputs == {"High", "Medium", "Low", "high", "medium", "HIGH", "Critical", ""}

\* Mutant of getSeverityClass: the comparison ignores case.
getSeverityClassAnyCase(sev) ==
    IF sev \in {"High", "high", "HIGH"} THEN ClsHigh
    ELSE IF sev \in {"Medium", "medium"} THEN ClsMedium
    ELSE ClsLow

getSeverityClass(sev) ==
    IF sev = "High" THEN ClsHigh
    ELSE IF sev = "Medium" THEN ClsMedium
    ELSE ClsLow

\* The severity column of the log table: incidents.map over rows whose
\* severities are sevs, each badge given the class of its severity.
RenderBadges(sevs) ==
    /\ badges' = [i \in 1..Len(sevs) |->
                    [severity |-> sevs[i], cls |-> getSeverityClass(sevs[i])]]
    /\ UNCHANGED <<appVars, capVars, inst, incidents, intervals, pending, nFetch,
                   issued, lateSets, nFail, lastData, shown>>

\* --------------------------------------------------- App: views and gate
\* The user screen's Dashboard button: setView("admin").
OpenAdmin ==
    /\ view = "user"
    /\ view' = "admin"
    /\ UNCHANGED <<isAuthenticated, passwordInput, lastAlert, capVars, dashVars>>

\* The login screen's back button: setView("user").
BackToUser ==
    /\ view = "admin" /\ ~isAuthenticated
    /\ view' = "user"
    /\ UNCHANGED <<isAuthenticated, passwordInput, lastAlert, capVars, dashVars>>

\* The password input's onChange.
TypePassword(p) ==
    /\ view = "admin" /\ ~isAuthenticated
    /\ p # passwordInput
    /\ passwordInput' = p
    /\ UNCHANGED <<view, isAuthenticated, lastAlert, capVars, dashVars>>

\* Mutant of HandleLogin: any non-empty password is accepted.
HandleLoginAnyPassword ==
    /\ view = "admin" /\ ~isAuthenticated
    /\ IF passwordInput # ""
         THEN /\ inst < MaxMounts /\ nFetch < MaxFetches
              /\ isAuthenticated' = TRUE
              /\ view' = "admin"
              /\ MountDashboard
              /\ UNCHANGED lastAlert
         ELSE /\ lastAlert' = AlertWrongPw
              /\ UNCHANGED <<view, isAuthenticated, dashVars>>
    /\ UNCHANGED <<passwordInput, capVars>>

\* handleLogin, reached from the login screen only; a granted login renders
\* Dashboard, which mounts.
HandleLogin ==
    /\ view = "admin" /\ ~isAuthenticated
    /\ IF passwordInput = Secret
         THEN /\ inst < MaxMounts /\ nFetch < MaxFetches
              /\ isAuthenticated' = TRUE
              /\ view' = "admin"
              /\ MountDashboard
              /\ UNCHANGED lastAlert
         ELSE /\ lastAlert' = AlertWrongPw
              /\ UNCHANGED <<view, isAuthenticated, dashVars>>
    /\ UNCHANGED <<passwordInput, capVars>>

\* Mutant of Logout: setIsAuthenticated(false) is left out.
LogoutKeepsAuth ==
    /\ Mounted
    /\ view' = "user"
    /\ UnmountDashboard
    /\ UNCHANGED <<isAuthenticated, passwordInput, lastAlert, capVars>>

\* Dashboard's onLogout; Dashboard is no longer rendered and unmounts.
Logout ==
    /\ Mounted
    /\ isAuthenticated' = FALSE
    /\ view' = "user"
    /\ UnmountDashboard
    /\ UNCHANGED <<passwordInput, lastAlert, capVars>>

\* ---------------------------------------------------------- specifications
CallbackStep ==
    \/ \E s \in Sids, p \in Positions : LocationSuccess(s, p)
    \/ \E s \in Sids : LocationError(s)
    \/ \E s \in Sids : MicGranted(s)
    \/ \E s \in Sids : MicFailed(s)
    \/ \E s \in Sids : DataAvailable(s)
    \/ \E s \in Sids : TimerFire(s)
    \/ \E s \in Sids : OnStop(s)
    \/ \E s \in Sids, sev \in Severities : PostSuccess(s, sev)
    \/ \E s \in Sids : PostFailure(s)

CaptureStep ==
    \/ HandleSOS
    \/ CallbackStep
    \/ \E t \in Texts : EditText(t)

NavStep ==
    \/ OpenAdmin
    \/ BackToUser

GateStep ==
    \/ \E p \in Passwords : TypePassword(p)
    \/ HandleLogin
    \/ Logout

PollStep ==
    \/ \E t \in intervals : Tick(t)
    \/ \E f \in pending, data \in Responses : FetchSuccess(f, data)
    \/ \E f \in pending : FetchFailure(f)

RenderStep ==
    \E sevs \in UNION { [1..n -> SeverityInputs] : n \in 0..MaxRows } : RenderBadges(sevs)

Next == CaptureStep \/ NavStep \/ GateStep \/ PollStep \/ RenderStep

Spec == Init /\ [][Next]_vars

\* The capture sessions with the view changes that show and hide the SOS
\* screen.  A granted login hides the SOS screen as the login screen does and
\* a logout shows it as the back button does, so the gate is left out.
NextCapture == CaptureStep \/ NavStep

SpecCapture == Init /\ [][NextCapture]_vars

\* The Dashboard with the gate that mounts it, no SOS triggered.
NextDash == NavStep \/ GateStep \/ PollStep

SpecDash == Init /\ [][NextDash]_vars

\* The rendering of the severity column alone.
SpecSeverity == Init /\ [][RenderStep]_vars

\* Every handler and callback of App and Dashboard together, in behaviours
\* of at most FrameSessions triggers and FrameFetches fetches.
NextFrame ==
    \/ Len(sess) < FrameSessions /\ HandleSOS
    \/ CallbackStep
    \/ \E t \in Texts : EditText(t)
    \/ NavStep
    \/ \E p \in Passwords : TypePassword(p)
    \/ nFetch < FrameFetches /\ HandleLogin
    \/ Logout
    \/ nFetch < FrameFetches /\ \E t \in intervals : Tick(t)
    \/ \E f \in pending, data \in Responses : FetchSuccess(f, data)
    \/ \E f \in pending : FetchFailure(f)

SpecFrame == Init /\ [][NextFrame]_vars

\* The capture sessions under the event loop's scheduling: an armed
\* setTimeout callback is eventually run.
FairCapture ==
    SpecCapture /\ \A s \in 1..MaxSessions : WF_vars(IF s \in Sids THEN TimerFire(s) ELSE FALSE)

\* ------------------------------------------------------------ properties
IsPrefix(a, b) == Len(a) <= Len(b) /\ SubSeq(b, 1, Len(a)) = a

\* A session between its trigger and the completion of its POST.
Recording(s) == sess[s].pc \in {"awaitLoc", "awaitMic", "recording"}
Uploading(s) == sess[s].pc \in {"stopping", "uploading"}
Stopped(s)   == sess[s].pc \in {"stopping", "uploading", "submitted", "submitFailed"}
Denied(s)    == sess[s].pc \in {"unsupported", "locDenied", "micDenied"}

\* C1: the SOS trigger is disabled from the trigger of a session until its
\* POST has completed, so no two sessions are ever under way together.
C1_TriggerDisabledUntilSubmitted ==
    /\ \A s \in Sids : Recording(s) \/ Uploading(s) => isRecording
    /\ \A s1, s2 \in Sids :
         (Recording(s1) \/ Uploading(s1)) /\ (Recording(s2) \/ Uploading(s2)) => s1 = s2

\* C2: within a session the steps happen in the order location request,
\* location success, microphone request, recorder start, recorder stop, POST,
\* none skipped or repeated: recording starts only with a position at hand
\* and the POST is sent only after the recorder stopped.
C2_StepsInOrder ==
    \A s \in Sids :
        /\ IsPrefix(sess[s].log, Steps)
        /\ (sess[s].pc \in {"awaitMic", "recording"} \/ Stopped(s) => sess[s].pos # Nothing)
        /\ (sess[s].posts > 0 => sess[s].stops = 1 /\ sess[s].timer = 0)

C2_Witness == \E s \in Sids : sess[s].log = Steps /\ sess[s].pc = "submitted"

\* C3: a session POSTs at most once, only with a position and an audio blob
\* at hand, and a session that ended in a denial or without geolocation has
\* not POSTed.
C3_SubmitAtMostOnce ==
    \A s \in Sids :
        /\ sess[s].posts <= 1
        /\ (sess[s].posts = 1 =>
              /\ \E p \in Positions : sess[s].pos = Some(p)
              /\ \E n \in 0..MaxChunks : sess[s].audio = Some([chunks |-> n])
              /\ sess[s].form # Nothing
              /\ Some(sess[s].form[1].location_data) = sess[s].pos
              /\ Some(sess[s].form[1].audio_file) = sess[s].audio)
        /\ (Denied(s) => sess[s].posts = 0 /\ sess[s].form = Nothing)

C3_Witness ==
    \E s1, s2 \in Sids :
        /\ sess[s1].pc = "submitted" /\ sess[s1].posts = 1
        /\ sess[s2].pc = "micDenied" /\ sess[s2].posts = 0

\* A Dashboard instance that was mounted and no longer is.
Dead(i) == i <= inst /\ ~(Mounted /\ i = inst)

\* C4: once a Dashboard instance is unmounted, the number of fetches it has
\* issued never grows.
C4_NoFetchAfterUnmount ==
    [][\A i \in 1..MaxMounts : Dead(i) => issued'[i] = issued[i]]_vars

C4_Witness ==
    /\ inst >= 1 /\ ~Mounted
    /\ issued[1] >= 2
    /\ nFetch < MaxFetches

IsSortedDesc(xs) == \A i, j \in DOMAIN xs : i < j => xs[i].id >= xs[j].id

SameIncidents(xs, ys) ==
    Len(xs) = Len(ys) /\ { xs[i] : i \in DOMAIN xs } = { ys[i] : i \in DOMAIN ys }

\* C6: the incident set of the Dashboard is sorted by id, descending, in
\* every state, whatever the order of the responses.
C6_DisplayedSortedDesc == IsSortedDesc(incidents)

C6_Witness ==
    /\ Mounted
    /\ Len(lastData) >= 2 /\ lastData[1].id < lastData[2].id
    /\ SameIncidents(incidents, lastData)
    /\ nFail >= 1

\* C7: a failed fetch changes neither the incident set nor the timer, and a
\* mounted Dashboard always has its timer live, so ticks go on issuing
\* fetches after failures.
C7_FailureKeepsSetAndPolling ==
    [][/\ nFail' # nFail => incidents' = incidents /\ intervals' = intervals
       /\ Mounted' => [inst |-> inst', period |-> PollMs] \in intervals']_vars

C7_Witness ==
    /\ Mounted /\ incidents # <<>>
    /\ \E f \in pending : f.inst = inst /\ f.after >= 1 /\ f.after = nFail

\* C8: the location error callback of a session sets the status to
\* Location Access Denied and re-arms the trigger, and that session stays
\* there: it never asks for the microphone nor starts a recorder.
C8_LocationDeniedNeverRecords ==
    [][\A s \in Sids :
         /\ sess[s].pc = "awaitLoc" /\ sess'[s].pc \notin {"awaitLoc", "awaitMic"}
              => sess'[s].pc = "locDenied" /\ status' = StLocDenied /\ ~isRecording'
         /\ sess[s].pc = "locDenied"
              => /\ sess'[s] = sess[s]
                 /\ sess[s].log = <<"locReq">>
                 /\ sess[s].timer = 0 /\ sess[s].stops = 0]_vars

C8_Witness ==
    \E s \in Sids :
        /\ sess[s].pc = "locDenied" /\ status = StLocDenied /\ TriggerEnabled
        /\ Len(sess) > s

\* C9: without geolocation a triggered session never shows the awaiting
\* location status and ends with the status of a location denial, the
\* trigger re-armed.
C9_UnsupportedLikeDenial ==
    \A s \in Sids :
        sess[s].pc = "unsupported" => status = StLocDenied /\ ~isRecording

SessionStep(s) ==
    /\ s \in Sids
    /\ \/ \E p \in Positions : LocationSuccess(s, p)
       \/ LocationError(s)
       \/ MicGranted(s)
       \/ MicFailed(s)
       \/ TimerFire(s)
       \/ OnStop(s)
       \/ \E sev \in Severities : PostSuccess(s, sev)
       \/ PostFailure(s)

\* The capture sessions when every device callback, timer and request
\* eventually completes.
FairSessions == SpecCapture /\ \A s \in 1..MaxSessions : WF_vars(SessionStep(s))

SessionAt(s, pcs) == IF s \in Sids THEN sess[s].pc \in pcs ELSE FALSE

\* C11: every triggered session eventually is Submitted or SubmitFailed, or
\* has left through LocationDenied or MicDenied, whatever the view does
\* meanwhile.
C11_RunsToOutcome ==
    \A s \in 1..MaxSessions :
        (s \in Sids)
          ~> SessionAt(s, {"submitted", "submitFailed", "locDenied", "micDenied"})

\* C12: the state right after an error outcome of a session (location
\* denied, geolocation unsupported, microphone denied, submission failed)
\* has the trigger re-armed.
C12_ErrorsRearm ==
    [][\A s \in DOMAIN sess' :
         /\ sess'[s].pc \in {"locDenied", "unsupported", "micDenied", "submitFailed"}
         /\ (s \in Sids => sess[s].pc # sess'[s].pc)
         => ~isRecording']_vars

\* C13: a result is held only while the session triggered last is Submitted,
\* and it is the result of that session.
C13_ResultOnlyOfSubmitted ==
    result # Nothing =>
        /\ Len(sess) >= 1
        /\ sess[Len(sess)].pc = "submitted"
        /\ result[1].session = Len(sess)

\* C14: while a session is between its trigger and the completion of its
\* POST the text input cannot be edited.
C14_TextLockedUntilSubmitted ==
    \A s \in Sids : Recording(s) \/ Uploading(s) => ~TextEditable

\* C15: a login attempt with the secret sets view to admin and
\* authenticated to true and shows the Dashboard; with any other password it
\* raises the alert and leaves view, authenticated and the password text as
\* they were; authenticated never becomes true any other way.
C15_LoginIffSecret ==
    [][/\ HandleLogin =>
            IF passwordInput = Secret
              THEN isAuthenticated' /\ view' = "admin" /\ Mounted'
              ELSE /\ lastAlert' = AlertWrongPw
                   /\ UNCHANGED <<view, isAuthenticated, passwordInput>>
       /\ isAuthenticated' /\ ~isAuthenticated
            => passwordInput = Secret /\ view = "admin"]_vars

C15_Witness ==
    /\ isAuthenticated /\ view = "admin"
    /\ passwordInput = Secret
    /\ lastAlert = AlertWrongPw

\* C16: authenticated holds only after a login with the secret and before
\* the next logout; a logout sets authenticated to false and view to user;
\* the Dashboard's timer is live exactly when view is admin and authenticated
\* is true.
C16_AuthenticatedOnlyWhileLoggedIn ==
    /\ [](/\ isAuthenticated => view = "admin" /\ passwordInput = Secret /\ inst >= 1
          /\ Mounted <=> ([inst |-> inst, period |-> PollMs] \in intervals)
          /\ Cardinality(intervals) <= 1)
    /\ [][/\ isAuthenticated /\ ~isAuthenticated' => view' = "user" /\ intervals' = {}
          /\ isAuthenticated' /\ ~isAuthenticated => inst' = inst + 1]_vars

C16_Witness == Mounted /\ inst = 2 /\ issued[1] >= 1

\* C17: at most one incident fetch of a Dashboard instance is outstanding.
C17_FetchesNeverOverlap ==
    \A f1, f2 \in pending : f1.inst = f2.inst => f1 = f2

\* C18 as claimed: the incident set changes only by the completion of a
\* fetch.
C18_OnlyFetchCompletionWrites ==
    [][incidents' # incidents => shown' \notin {0, shown} /\ pending' # pending]_vars

\* C18 as amended: the incident set changes only by the completion of a
\* fetch of the mounted Dashboard, or by the unmount, which discards it; a
\* completion replaces the set by exactly the incidents of its response.
C18_OnlyFetchOrUnmountWrites ==
    [][/\ incidents' # incidents =>
            \/ shown' \notin {0, shown} /\ pending' # pending /\ Mounted /\ Mounted'
            \/ Mounted /\ ~Mounted' /\ incidents' = <<>>
       /\ shown' \notin {0, shown} =>
            SameIncidents(incidents', lastData') /\ IsSortedDesc(incidents')]_vars

C18_Witness ==
    /\ Mounted /\ shown >= 2 /\ incidents # <<>>
    /\ Len(incidents) < MaxLen
    /\ \E s \in Sids : sess[s].pc = "submitted"

\* C19: the badge class is the high style for exactly "High", the medium
\* style for exactly "Medium" and the low style for every other string.
C19_SeverityBadgeMapping ==
    \A i \in DOMAIN badges :
        /\ badges[i].cls \in {ClsHigh, ClsMedium, ClsLow}
        /\ (badges[i].cls = ClsHigh) = (badges[i].severity = "High")
        /\ (badges[i].cls = ClsMedium) = (badges[i].severity = "Medium")

C19_Witness ==
    \E i, j \in DOMAIN badges :
        /\ badges[i].severity = "High" /\ badges[i].cls = ClsHigh
        /\ badges[j].severity = "high" /\ badges[j].cls = ClsLow

\* C20: while a Dashboard stays mounted, a response never replaces the
\* response of a fetch that was issued later.
C20_NewestResponseStays ==
    [][Mounted /\ Mounted' /\ inst' = inst => shown' >= shown]_vars

====
